---- MODULE Spec2Model ----
(***************************************************************************)
(* Model of simple_database/main.py: a Database object holding Tables,     *)
(* persisted as one JSON document per database name.                       *)
(*                                                                         *)
(* Text (table names, column names, str values, stored date strings) is a  *)
(* sequence of one-character strings, so that slicing and first-character  *)
(* tests are computed as the code computes them.                           *)
(***************************************************************************)
EXTENDS Integers, Sequences, FiniteSets, TLC

VARIABLES db, disk, result, gen

vars == <<db, disk, result, gen>>

(***************************************************************************)
(* Bounds of the model.                                                    *)
(***************************************************************************)
\* total number of rows held by the in-memory database
MaxRows == 2

(***************************************************************************)
(* Python values.  Every value is a record of one shape; `kind` is the     *)
(* Python type of the value (type(v).__name__).                            *)
(***************************************************************************)
IntV(i) == [kind |-> "int", n |-> i, month |-> 0, day |-> 0, s |-> <<>>]
BoolV(b) == [kind |-> "bool", n |-> IF b THEN 1 ELSE 0, month |-> 0, day |-> 0, s |-> <<>>]
StrV(cs) == [kind |-> "str", n |-> 0, month |-> 0, day |-> 0, s |-> cs]
DateV(y, m, d) == [kind |-> "date", n |-> y, month |-> m, day |-> d, s |-> <<>>]

\* a != b of Python on two values: bool is a subclass of int and compares
\* as the number 0 or 1; values of unrelated types are unequal
PyEq(a, b) ==
    IF a.kind \in {"int", "bool"} /\ b.kind \in {"int", "bool"}
    THEN a.n = b.n
    ELSE a = b

\* isinstance(arg, type_dict[col_type])
IsInstance(v, col_type) ==
    CASE col_type = "int" -> v.kind \in {"int", "bool"}
      [] col_type = "bool" -> v.kind = "bool"
      [] col_type = "str" -> v.kind = "str"
      [] col_type = "date" -> v.kind = "date"

(***************************************************************************)
(* Exceptions.                                                             *)
(***************************************************************************)
NoErr == [exc |-> "", msg |-> "", col |-> <<>>, given |-> "", expected |-> ""]
Err(exc, msg) == [exc |-> exc, msg |-> msg, col |-> <<>>, given |-> "", expected |-> ""]

(***************************************************************************)
(* Text helpers.                                                           *)
(***************************************************************************)
Digits == <<"0", "1", "2", "3", "4", "5", "6", "7", "8", "9">>
ascii_lowercase == <<"a", "b", "c", "d", "e", "f", "g", "h", "i", "j", "k", "l", "m",
                     "n", "o", "p", "q", "r", "s", "t", "u", "v", "w", "x", "y", "z">>
ascii_uppercase == <<"A", "B", "C", "D", "E", "F", "G", "H", "I", "J", "K", "L", "M",
                     "N", "O", "P", "Q", "R", "S", "T", "U", "V", "W", "X", "Y", "Z">>

Range(f) == {f[i] : i \in DOMAIN f}

\* c.lower() for a one-character string
Lower(c) ==
    IF \E i \in 1..26 : ascii_uppercase[i] = c
    THEN ascii_lowercase[CHOOSE i \in 1..26 : ascii_uppercase[i] = c]
    ELSE c

\* value[lo:hi] of Python for 0 <= lo, 0 <= hi (0-based, hi exclusive, clamped)
Slice(cs, lo, hi) ==
    LET h == IF hi > Len(cs) THEN Len(cs) ELSE hi
    IN IF lo >= h THEN <<>> ELSE SubSeq(cs, lo + 1, h)

DigitVal(c) == (CHOOSE i \in 1..10 : Digits[i] = c) - 1
IsDigit(c) == \E i \in 1..10 : Digits[i] = c

RECURSIVE DigitsToNat(_)
DigitsToNat(cs) ==
    IF cs = <<>> THEN 0
    ELSE 10 * DigitsToNat(SubSeq(cs, 1, Len(cs) - 1)) + DigitVal(cs[Len(cs)])

\* int(text): an optional sign followed by one or more decimal digits;
\* anything else raises ValueError
IntParses(cs) ==
    LET body == IF cs # <<>> /\ cs[1] \in {"-", "+"} THEN Tail(cs) ELSE cs
    IN body # <<>> /\ \A i \in 1..Len(body) : IsDigit(body[i])
IntOf(cs) ==
    IF cs[1] = "-" THEN 0 - DigitsToNat(Tail(cs))
    ELSE IF cs[1] = "+" THEN DigitsToNat(Tail(cs))
    ELSE DigitsToNat(cs)

\* '{}'.format(n) for n >= 0
RECURSIVE NatToDigits(_)
NatToDigits(n) ==
    IF n < 10 THEN <<Digits[n + 1]>>
    ELSE NatToDigits(n \div 10) \o <<Digits[(n % 10) + 1]>>

\* '{:02}'.format(n): zero-padded to a minimum width of 2
Format02(n) ==
    IF n < 10 THEN <<"0">> \o NatToDigits(n) ELSE NatToDigits(n)

(***************************************************************************)
(* datetime.date                                                           *)
(***************************************************************************)
MINYEAR == 1
MAXYEAR == 9999

IsLeap(y) == (y % 4 = 0) /\ ((y % 100 # 0) \/ (y % 400 = 0))
DaysInMonth(y, m) ==
    IF m = 2 THEN (IF IsLeap(y) THEN 29 ELSE 28)
    ELSE IF m \in {4, 6, 9, 11} THEN 30 ELSE 31

\* date(year, month, day) raises ValueError unless this holds
DateValid(y, m, d) ==
    /\ MINYEAR <= y /\ y <= MAXYEAR
    /\ 1 <= m /\ m <= 12
    /\ 1 <= d /\ d <= DaysInMonth(y, m)

\* _serialize_dt: '{0.year}-{0.month:02}-{0.day:02}'
_serialize_dt(v) ==
    StrV(NatToDigits(v.n) \o <<"-">> \o Format02(v.month) \o <<"-">> \o Format02(v.day))

\* _deserialize_dt: returns [err, value]; slicing a non-string raises
\* TypeError, int() and date() raise ValueError
_deserialize_dt(v) ==
    IF v.kind # "str"
    THEN [err |-> Err("TypeError", "not subscriptable"), value |-> v]
    ELSE LET ys == Slice(v.s, 0, 4)
             ms == Slice(v.s, 5, 7)
             ds == Slice(v.s, 8, Len(v.s))
         IN IF ~IntParses(ys) \/ ~IntParses(ms) \/ ~IntParses(ds)
            THEN [err |-> Err("ValueError", "invalid literal for int()"), value |-> v]
            ELSE IF ~DateValid(IntOf(ys), IntOf(ms), IntOf(ds))
            THEN [err |-> Err("ValueError", "date out of range"), value |-> v]
            ELSE [err |-> NoErr, value |-> DateV(IntOf(ys), IntOf(ms), IntOf(ds))]

(***************************************************************************)
(* Inputs the operations are exercised with.                               *)
(***************************************************************************)
DbNames == {<<"d", "b">>}

TableNames ==
    {<<"t">>, <<"B">>, <<"c", "o", "m", "m", "i", "t">>,
     <<"_", "t", "a", "b", "l", "e", "s">>, <<"_", "x">>, <<>>}

id == <<"i", "d">>
ok == <<"o", "k">>
nm == <<"n", "m">>
dt == <<"d", "t">>
zz == <<"z", "z">>

ColsA == <<[name |-> id, type |-> "int"], [name |-> ok, type |-> "bool"]>>
ColsB == <<[name |-> nm, type |-> "str"], [name |-> dt, type |-> "date"]>>
ColsDup == <<[name |-> nm, type |-> "str"], [name |-> nm, type |-> "str"]>>
ColumnLists == {ColsA, ColsB, ColsDup}

Ada == StrV(<<"A", "d", "a">>)
Lin == StrV(<<"L", "i", "n">>)
D1899 == DateV(1899, 8, 24)
D999 == DateV(999, 1, 1)

S1899 == StrV(<<"1", "8", "9", "9", "-", "0", "8", "-", "2", "4">>)

ArgTuples ==
    {<<IntV(1), BoolV(TRUE)>>, <<BoolV(TRUE), BoolV(FALSE)>>,
     <<IntV(1), IntV(2)>>, <<Ada, D1899>>, <<Lin, D999>>, <<Ada, S1899>>,
     <<D1899, Ada>>, <<IntV(1)>>, <<BoolV(TRUE), IntV(2)>>}

\* keyword arguments of a query, as the (key, value) pairs of kwargs.items()
Filters ==
    {<<>>,
     <<[key |-> id, value |-> IntV(1)]>>,
     <<[key |-> ok, value |-> BoolV(FALSE)], [key |-> id, value |-> IntV(1)]>>,
     <<[key |-> dt, value |-> D999]>>,
     <<[key |-> nm, value |-> S1899]>>,
     <<[key |-> zz, value |-> IntV(1)]>>,
     <<[key |-> id, value |-> IntV(1)], [key |-> zz, value |-> IntV(1)]>>}

(***************************************************************************)
(* State.                                                                  *)
(*   db     : the Database object the program holds (bound = FALSE: none)  *)
(*   disk   : for each database name, the file BASE_DB_FILE_PATH/name      *)
(*   result : the last call, its arguments and its outcome                 *)
(*   gen    : the generator returned by the last call of Table.query that  *)
(*            is consumed step by step                                     *)
(***************************************************************************)
NoDb == [bound |-> FALSE, _db_name |-> <<>>, _tables |-> <<>>]
NoFile == [exists |-> FALSE, doc |-> <<>>]

\* Commit changes immediately on making them?
AUTOCOMMIT == TRUE

\* Database.__init__
Database(db_name) == [bound |-> TRUE, _db_name |-> db_name, _tables |-> <<>>]

\* Table.__init__ keeping the columns in reverse order
TableReversed(name, columns) ==
    [name |-> name,
     columns |-> [i \in 1..Len(columns) |-> columns[Len(columns) + 1 - i]],
     rows |-> <<>>,
     col_names |-> [i \in 1..Len(columns) |-> columns[Len(columns) + 1 - i].name]]

\* Table.__init__
Table(name, columns) ==
    [name |-> name, columns |-> columns, rows |-> <<>>,
     col_names |-> [i \in 1..Len(columns) |-> columns[i].name]]

\* os.path.isfile(os.path.join(BASE_DB_FILE_PATH, db_name))
isfile(dsk, db_name) == dsk[db_name].exists

\* names hasattr() finds on every Database object, whatever its tables:
\* the two instance fields and the methods of the class
DatabaseAttrs ==
    {<<"_", "t", "a", "b", "l", "e", "s">>, <<"_", "d", "b", "_", "n", "a", "m", "e">>,
     <<"c", "r", "e", "a", "t", "e", "_", "t", "a", "b", "l", "e">>,
     <<"s", "h", "o", "w", "_", "t", "a", "b", "l", "e", "s">>,
     <<"c", "o", "m", "m", "i", "t">>}

\* hasattr(self, table_name): setattr(self, table_name, new_table) adds one
\* attribute per created table
hasattr(d, table_name) ==
    \/ table_name \in DatabaseAttrs
    \/ \E i \in 1..Len(d._tables) : d._tables[i].name = table_name

\* Database.show_tables
show_tables(d) == [i \in 1..Len(d._tables) |-> d._tables[i].name]

\* Table.count
count(t) == Len(t.rows)

\* Table.describe
describe(t) == t.columns

\* the rows of one table as Database.commit writes them: in every column of
\* type 'date' the value is replaced by _serialize_dt of it
SerializeRow(columns, row) ==
    [pos \in 1..Len(row) |->
        IF pos <= Len(columns) /\ columns[pos].type = "date"
        THEN _serialize_dt(row[pos]) ELSE row[pos]]

\* the json_data list with the dates left as date objects
json_dataRaw(d) ==
    [i \in 1..Len(d._tables) |->
        [name |-> d._tables[i].name,
         columns |-> d._tables[i].columns,
         rows |-> d._tables[i].rows]]

\* Database.commit: the json_data list, written over the file of the name
json_data(d) ==
    [i \in 1..Len(d._tables) |->
        [name |-> d._tables[i].name,
         columns |-> d._tables[i].columns,
         rows |-> [r \in 1..Len(d._tables[i].rows) |->
                     SerializeRow(d._tables[i].columns, d._tables[i].rows[r])]]]

commit(d, dsk) ==
    [dsk EXCEPT ![d._db_name] = [exists |-> TRUE, doc |-> json_data(d)]]

\* Database.create_table putting the new table in front of the others
create_tableFront(d, dsk, table_name, columns) ==
    IF hasattr(d, table_name)
    THEN [db |-> d, disk |-> dsk, err |-> Err("ValidationError", "Duplicate table name")]
    ELSE IF table_name = <<>>
    THEN [db |-> d, disk |-> dsk, err |-> Err("IndexError", "string index out of range")]
    ELSE IF Lower(table_name[1]) \notin Range(ascii_lowercase)
    THEN [db |-> d, disk |-> dsk,
          err |-> Err("ValidationError", "Table name must begin with a character")]
    ELSE LET d2 == [d EXCEPT !._tables = <<Table(table_name, columns)>> \o @]
         IN [db |-> d2, disk |-> IF AUTOCOMMIT THEN commit(d2, dsk) ELSE dsk, err |-> NoErr]

\* Database.create_table on object d with storage dsk: the object and the
\* storage afterwards, and the exception raised (NoErr: none)
create_table(d, dsk, table_name, columns) ==
    IF hasattr(d, table_name)
    THEN [db |-> d, disk |-> dsk, err |-> Err("ValidationError", "Duplicate table name")]
    ELSE IF table_name = <<>>
    THEN [db |-> d, disk |-> dsk, err |-> Err("IndexError", "string index out of range")]
    ELSE IF Lower(table_name[1]) \notin Range(ascii_lowercase)
    THEN [db |-> d, disk |-> dsk,
          err |-> Err("ValidationError", "Table name must begin with a character")]
    ELSE LET d2 == [d EXCEPT !._tables = Append(@, Table(table_name, columns))]
         IN [db |-> d2, disk |-> IF AUTOCOMMIT THEN commit(d2, dsk) ELSE dsk, err |-> NoErr]

\* the type-checking loop of Table.insert from position index on: the
\* exception of the first argument that is not an instance of its column's
\* type, or NoErr
RECURSIVE CheckArgs(_, _, _)
CheckArgs(columns, args, index) ==
    IF index > Len(args) THEN NoErr
    ELSE IF ~IsInstance(args[index], columns[index].type)
    THEN [exc |-> "ValidationError", msg |-> "Invalid type of field",
          col |-> columns[index].name, given |-> args[index].kind,
          expected |-> columns[index].type]
    ELSE CheckArgs(columns, args, index + 1)

\* Table.insert making the new row the only row of the table
insertReplacing(d, dsk, ti, args) ==
    LET t == d._tables[ti]
    IN IF Len(args) # Len(t.columns)
       THEN [db |-> d, disk |-> dsk, err |-> Err("ValidationError", "Invalid amount of field")]
       ELSE IF CheckArgs(t.columns, args, 1) # NoErr
       THEN [db |-> d, disk |-> dsk, err |-> CheckArgs(t.columns, args, 1)]
       ELSE LET d2 == [d EXCEPT !._tables[ti].rows = <<args>>]
            IN [db |-> d2, disk |-> IF AUTOCOMMIT THEN commit(d2, dsk) ELSE dsk,
                err |-> NoErr]

\* Table.insert putting the new row in front of the others
insertFront(d, dsk, ti, args) ==
    LET t == d._tables[ti]
    IN IF Len(args) # Len(t.columns)
       THEN [db |-> d, disk |-> dsk, err |-> Err("ValidationError", "Invalid amount of field")]
       ELSE IF CheckArgs(t.columns, args, 1) # NoErr
       THEN [db |-> d, disk |-> dsk, err |-> CheckArgs(t.columns, args, 1)]
       ELSE LET d2 == [d EXCEPT !._tables[ti].rows = <<args>> \o @]
            IN [db |-> d2, disk |-> IF AUTOCOMMIT THEN commit(d2, dsk) ELSE dsk,
                err |-> NoErr]

\* Table.insert on table number ti of object d
insert(d, dsk, ti, args) ==
    LET t == d._tables[ti]
    IN IF Len(args) # Len(t.columns)
       THEN [db |-> d, disk |-> dsk, err |-> Err("ValidationError", "Invalid amount of field")]
       ELSE IF CheckArgs(t.columns, args, 1) # NoErr
       THEN [db |-> d, disk |-> dsk, err |-> CheckArgs(t.columns, args, 1)]
       ELSE LET d2 == [d EXCEPT !._tables[ti].rows = Append(@, args)]
            IN [db |-> d2, disk |-> IF AUTOCOMMIT THEN commit(d2, dsk) ELSE dsk,
                err |-> NoErr]

\* create_database(db_name) with storage dsk: the Database returned and the
\* exception raised
create_database(dsk, db_name) ==
    IF isfile(dsk, db_name)
    THEN [db |-> NoDb, err |-> Err("ValidationError", "Database already exists")]
    ELSE [db |-> Database(db_name), err |-> NoErr]

\* the date-decoding loops of connect_database over the stored rows of one
\* table, from column i and row j on: the rows with every value of a 'date'
\* column replaced by _deserialize_dt of it, or the first exception
RECURSIVE DeserializeFrom(_, _, _, _)
DeserializeFrom(columns, rows, i, j) ==
    IF i > Len(columns) THEN [err |-> NoErr, rows |-> rows]
    ELSE IF columns[i].type # "date" \/ j > Len(rows)
    THEN DeserializeFrom(columns, rows, i + 1, 1)
    ELSE IF i > Len(rows[j])
    THEN [err |-> Err("IndexError", "list index out of range"), rows |-> rows]
    ELSE LET r == _deserialize_dt(rows[j][i])
         IN IF r.err # NoErr THEN [err |-> r.err, rows |-> rows]
            ELSE DeserializeFrom(columns, [rows EXCEPT ![j][i] = r.value], i, j + 1)

\* the insert loop of connect_database: db_table.insert(*row) for the rows
\* from number j on, stopping at the first exception
RECURSIVE InsertRowsFrom(_, _, _, _, _)
InsertRowsFrom(d, dsk, ti, rows, j) ==
    IF j > Len(rows) THEN [db |-> d, disk |-> dsk, err |-> NoErr]
    ELSE LET r == insert(d, dsk, ti, rows[j])
         IN IF r.err # NoErr THEN r
            ELSE InsertRowsFrom(r.db, r.disk, ti, rows, j + 1)

\* the table loop of connect_database from table record k of the loaded
\* document on: create the table, decode its dates, insert its rows
RECURSIVE LoadTablesFrom(_, _, _, _)
LoadTablesFrom(data, k, d, dsk) ==
    IF k > Len(data) THEN [db |-> d, disk |-> dsk, err |-> NoErr]
    ELSE LET c == create_table(d, dsk, data[k].name, data[k].columns)
             ti == Len(c.db._tables)
             rows == DeserializeFrom(data[k].columns, data[k].rows, 1, 1)
             ins == InsertRowsFrom(c.db, c.disk, ti, rows.rows, 1)
         IN IF c.err # NoErr THEN c
            ELSE IF rows.err # NoErr THEN [db |-> c.db, disk |-> c.disk, err |-> rows.err]
            ELSE IF ins.err # NoErr THEN ins
            ELSE LoadTablesFrom(data, k + 1, ins.db, ins.disk)

\* connect_database creating the database (and its file) when it is missing
connect_databaseCreating(dsk, db_name) ==
    IF ~isfile(dsk, db_name)
    THEN [db |-> Database(db_name), disk |-> commit(Database(db_name), dsk), err |-> NoErr]
    ELSE LoadTablesFrom(dsk[db_name].doc, 1, Database(db_name), dsk)

\* connect_database(db_name) with storage dsk: the Database returned, the
\* storage afterwards and the exception raised
connect_database(dsk, db_name) ==
    IF ~isfile(dsk, db_name)
    THEN [db |-> NoDb, disk |-> dsk, err |-> Err("ValidationError", "Database does not exist.")]
    ELSE LoadTablesFrom(dsk[db_name].doc, 1, Database(db_name), dsk)

\* col_names.index(key), for a key that is in col_names
RECURSIVE IndexFrom(_, _, _)
IndexFrom(col_names, key, i) ==
    IF col_names[i] = key THEN i ELSE IndexFrom(col_names, key, i + 1)
index(col_names, key) == IndexFrom(col_names, key, 1)

\* Row.__init__: one attribute per column name, set in column order, so a
\* later column of the same name overwrites an earlier one
Row(col_names, row) ==
    [c \in Range(col_names) |->
        row[CHOOSE i \in 1..Len(col_names) :
                /\ col_names[i] = c
                /\ \A k \in (i + 1)..Len(col_names) : col_names[k] # c]]

\* the inner loop of Table.query where the last pair alone decides
RECURSIVE MatchesFromLast(_, _, _, _, _)
MatchesFromLast(col_names, row, kwargs, p, matches) ==
    IF p > Len(kwargs) THEN matches
    ELSE MatchesFromLast(col_names, row, kwargs, p + 1,
                         PyEq(row[index(col_names, kwargs[p].key)], kwargs[p].value))

\* the inner loop of Table.query over kwargs.items() from pair p on
RECURSIVE MatchesFrom(_, _, _, _, _)
MatchesFrom(col_names, row, kwargs, p, matches) ==
    IF p > Len(kwargs) THEN matches
    ELSE IF ~PyEq(row[index(col_names, kwargs[p].key)], kwargs[p].value)
    THEN MatchesFrom(col_names, row, kwargs, p + 1, FALSE)
    ELSE MatchesFrom(col_names, row, kwargs, p + 1, matches)

\* the outer loop of Table.query over self.rows from row r on: the Rows
\* yielded
RECURSIVE YieldFrom(_, _, _)
YieldFrom(t, kwargs, r) ==
    IF r > Len(t.rows) THEN <<>>
    ELSE IF MatchesFrom(t.col_names, t.rows[r], kwargs, 1, TRUE)
    THEN <<Row(t.col_names, t.rows[r])>> \o YieldFrom(t, kwargs, r + 1)
    ELSE YieldFrom(t, kwargs, r + 1)

\* Table.query without the validation of the keys: an undeclared key is
\* found only by col_names.index, when there is a row to compare
queryUnvalidated(t, kwargs) ==
    IF (\E p \in 1..Len(kwargs) : kwargs[p].key \notin Range(t.col_names)) /\ t.rows # <<>>
    THEN [err |-> Err("ValueError", "column not defined in table"), rows |-> <<>>]
    ELSE [err |-> NoErr, rows |-> IF t.rows = <<>> THEN <<>> ELSE YieldFrom(t, kwargs, 1)]

\* Table.query(**kwargs), consumed to its end: the exception raised by the
\* validation of the keys, or the Rows yielded
query(t, kwargs) ==
    IF \E p \in 1..Len(kwargs) : kwargs[p].key \notin Range(t.col_names)
    THEN [err |-> Err("ValueError", "column not defined in table"), rows |-> <<>>]
    ELSE [err |-> NoErr, rows |-> YieldFrom(t, kwargs, 1)]

\* Table.all
all(t) == query(t, <<>>)

\* number of rows in all tables of d
RECURSIVE RowsFrom(_, _)
RowsFrom(d, i) ==
    IF i > Len(d._tables) THEN 0 ELSE Len(d._tables[i].rows) + RowsFrom(d, i + 1)
TotalRows(d) == RowsFrom(d, 1)

NoResult ==
    [op |-> "none", name |-> <<>>, columns |-> <<>>, tbl |-> 0, args |-> <<>>,
     filter |-> <<>>, err |-> NoErr, rows |-> <<>>]

\* no generator; a generator records the table it was called on, its
\* keyword arguments, how many rows its iterator over self.rows has passed,
\* the Rows it has yielded and the rows of the table when it was called
NoGen ==
    [state |-> "none", tbl |-> 0, kwargs |-> <<>>, it |-> 0, yielded |-> <<>>,
     rows_at_call |-> <<>>]

Init ==
    /\ db = NoDb
    /\ disk = [n \in DbNames |-> NoFile]
    /\ result = NoResult
    /\ gen = NoGen

\* create_database(db_name)
CreateDatabase ==
    \E db_name \in DbNames :
        LET r == create_database(disk, db_name)
        IN /\ db' = IF r.err = NoErr THEN r.db ELSE db
           /\ result' = [NoResult EXCEPT !.op = "create_database", !.name = db_name,
                            !.err = r.err]
           /\ UNCHANGED <<disk, gen>>

\* db.create_table(table_name, columns)
CreateTable ==
    /\ db.bound
    /\ \E table_name \in TableNames, columns \in ColumnLists :
        LET r == create_table(db, disk, table_name, columns)
        IN /\ db' = r.db
           /\ disk' = r.disk
           /\ result' = [NoResult EXCEPT !.op = "create_table", !.name = table_name,
                            !.columns = columns, !.err = r.err]
           /\ UNCHANGED gen

\* db.<table>.insert(*args)
Insert ==
    /\ db.bound
    /\ TotalRows(db) < MaxRows
    /\ \E ti \in 1..Len(db._tables), args \in ArgTuples :
        LET r == insert(db, disk, ti, args)
        IN /\ db' = r.db
           /\ disk' = r.disk
           /\ result' = [NoResult EXCEPT !.op = "insert", !.tbl = ti, !.args = args,
                            !.err = r.err]
           /\ UNCHANGED gen

\* connect_database(db_name)
ConnectDatabase ==
    \E db_name \in DbNames :
        LET r == connect_database(disk, db_name)
        IN /\ db' = IF r.err = NoErr THEN r.db ELSE db
           /\ disk' = r.disk
           /\ result' = [NoResult EXCEPT !.op = "connect_database", !.name = db_name,
                            !.err = r.err]
           /\ UNCHANGED gen

\* list(db.<table>.query(**kwargs))
Query ==
    /\ db.bound
    /\ \E ti \in 1..Len(db._tables), kwargs \in Filters :
        LET r == query(db._tables[ti], kwargs)
        IN /\ result' = [NoResult EXCEPT !.op = "query", !.tbl = ti, !.filter = kwargs,
                            !.err = r.err, !.rows = r.rows]
           /\ UNCHANGED <<db, disk, gen>>

\* db.commit() serializing the dates in the rows of the tables themselves
\* (no deepcopy)
CommitInPlace ==
    /\ db.bound
    /\ disk' = commit(db, disk)
    /\ result' = [NoResult EXCEPT !.op = "commit"]
    /\ db' = [db EXCEPT !._tables =
                [i \in 1..Len(db._tables) |->
                    [db._tables[i] EXCEPT !.rows = json_data(db)[i].rows]]]
    /\ UNCHANGED gen

\* db.commit()
Commit ==
    /\ db.bound
    /\ disk' = commit(db, disk)
    /\ result' = [NoResult EXCEPT !.op = "commit"]
    /\ UNCHANGED <<db, gen>>

Next == CreateDatabase \/ ConnectDatabase \/ CreateTable \/ Insert \/ Query \/ Commit

Spec == Init /\ [][Next]_vars

(***************************************************************************)
(* Table.query consumed one element at a time, with inserts in between.    *)
(***************************************************************************)
\* keyword arguments of the queries that are consumed step by step
GenFilters ==
    {<<>>, <<[key |-> id, value |-> IntV(1)]>>, <<[key |-> zz, value |-> IntV(1)]>>}

\* arguments of the inserts made while a query is being consumed
GenArgTuples == {<<IntV(1), BoolV(TRUE)>>, <<BoolV(TRUE), BoolV(FALSE)>>, <<IntV(1)>>}

\* the loop `for row in self.rows` resumed after `it` rows: the number of
\* the next row that matches, or 0 when the list as it is now has no more
RECURSIVE AdvanceFrom(_, _, _)
AdvanceFrom(t, kwargs, it) ==
    IF it >= Len(t.rows) THEN 0
    ELSE IF MatchesFrom(t.col_names, t.rows[it + 1], kwargs, 1, TRUE) THEN it + 1
    ELSE AdvanceFrom(t, kwargs, it + 1)

\* g = db.<table>.query(**kwargs): builds the generator, runs none of its body
GenCall ==
    /\ db.bound
    /\ \E ti \in 1..Len(db._tables), kwargs \in GenFilters :
        /\ gen' = [state |-> "created", tbl |-> ti, kwargs |-> kwargs, it |-> 0,
                   yielded |-> <<>>, rows_at_call |-> db._tables[ti].rows]
        /\ result' = [NoResult EXCEPT !.op = "query_call", !.tbl = ti, !.filter = kwargs]
    /\ UNCHANGED <<db, disk>>

\* next(g): the first call runs the validation of the keys; every call runs
\* the loop over self.rows up to the next yield or to the end of the list
GenNext ==
    /\ gen.state \in {"created", "running"}
    /\ LET t == db._tables[gen.tbl]
           r == AdvanceFrom(t, gen.kwargs, gen.it)
       IN IF gen.state = "created"
             /\ \E p \in 1..Len(gen.kwargs) : gen.kwargs[p].key \notin Range(t.col_names)
          THEN /\ gen' = [gen EXCEPT !.state = "failed"]
               /\ result' = [NoResult EXCEPT !.op = "next", !.tbl = gen.tbl,
                                !.filter = gen.kwargs,
                                !.err = Err("ValueError", "column not defined in table")]
          ELSE IF r = 0
          THEN /\ gen' = [gen EXCEPT !.state = "done", !.it = Len(t.rows)]
               /\ result' = [NoResult EXCEPT !.op = "next", !.tbl = gen.tbl,
                                !.filter = gen.kwargs,
                                !.err = Err("StopIteration", "")]
          ELSE /\ gen' = [gen EXCEPT !.state = "running", !.it = r,
                                      !.yielded = Append(@, Row(t.col_names, t.rows[r]))]
               /\ result' = [NoResult EXCEPT !.op = "next", !.tbl = gen.tbl,
                                !.filter = gen.kwargs,
                                !.rows = <<Row(t.col_names, t.rows[r])>>]
    /\ UNCHANGED <<db, disk>>

\* db.create_table('t', ColsA)
GenCreateTable ==
    /\ CreateTable
    /\ result'.name = <<"t">>
    /\ result'.columns = ColsA

\* db.t.insert(*args) with the arguments of GenArgTuples
GenInsert ==
    /\ Insert
    /\ result'.args \in GenArgTuples

NextGen == CreateDatabase \/ GenCreateTable \/ GenInsert \/ GenCall \/ GenNext

SpecGen == Init /\ [][NextGen]_vars

(***************************************************************************)
(* Properties.                                                             *)
(***************************************************************************)
\* the error kind of the design that an exception of the code stands for
ErrorKind(e) ==
    CASE e.exc = "ValidationError" /\ e.msg = "Database already exists" -> "AlreadyExistsError"
      [] e.exc = "ValidationError" /\ e.msg = "Database does not exist." -> "NotFoundError"
      [] e.exc = "ValidationError" /\ e.msg = "Duplicate table name" -> "DuplicateTableError"
      [] e.exc = "ValidationError" /\ e.msg = "Table name must begin with a character"
            -> "InvalidNameError"
      [] e.exc = "ValidationError" /\ e.msg = "Invalid amount of field" -> "WrongArity"
      [] e.exc = "ValidationError" /\ e.msg = "Invalid type of field" -> "WrongType"
      [] e.exc = "ValueError" /\ e.msg = "column not defined in table" -> "UnknownColumnError"
      [] OTHER -> e.exc

\* every value of args is of the kind declared for its column
KindsMatch(columns, args) ==
    /\ Len(args) = Len(columns)
    /\ \A i \in 1..Len(args) : args[i].kind = columns[i].type

\* the name starts with an ASCII letter
StartsWithLetter(name) ==
    /\ name # <<>>
    /\ name[1] \in Range(ascii_lowercase) \cup Range(ascii_uppercase)

\* the position of the first column called key
ColumnOf(t, key) ==
    CHOOSE i \in 1..Len(t.columns) :
        /\ t.columns[i].name = key
        /\ \A k \in 1..(i - 1) : t.columns[k].name # key

\* the numbers of the rows of t that every pair of filter f selects
Selected(t, f) ==
    {r \in 1..Len(t.rows) :
        \A p \in 1..Len(f) : PyEq(t.rows[r][ColumnOf(t, f[p].key)], f[p].value)}

\* the k-th smallest member of a set of numbers
Nth(S, k) == CHOOSE m \in S : Cardinality({x \in S : x < m}) = k - 1

\* the Rows of the selected rows of t, in the order of insertion
SelectedRows(t, f) ==
    [k \in 1..Cardinality(Selected(t, f)) |->
        Row(t.col_names, t.rows[Nth(Selected(t, f), k)])]

\* C1: round-trip law: a commit() followed by connect_database on the same
\* name succeeds and yields a database with the same tables, in the same
\* order, with the same columns and the same rows (dates as dates) as the
\* in-memory database before the commit.
C1_RoundTrip ==
    [][(result.op = "commit" /\ result'.op = "connect_database"
            /\ result'.name = db._db_name)
        => /\ result'.err = NoErr
           /\ db'._tables = db._tables]_vars

\* C2: an insert whose arguments are as many as the columns and each of the
\* kind of its column succeeds, appends the arguments as the last row of the
\* table and makes count() one more than before.
C2_InsertAppends ==
    [][(result'.op = "insert"
            /\ KindsMatch(db._tables[result'.tbl].columns, result'.args))
        => /\ result'.err = NoErr
           /\ db'._tables[result'.tbl].rows
                = Append(db._tables[result'.tbl].rows, result'.args)
           /\ count(db'._tables[result'.tbl]) = count(db._tables[result'.tbl]) + 1]_vars

\* C2 witness: a second row of the declared kinds has been appended to a table
C2_Witness ==
    /\ result.op = "insert"
    /\ result.err = NoErr
    /\ KindsMatch(db._tables[result.tbl].columns, result.args)
    /\ count(db._tables[result.tbl]) = 2
    /\ db._tables[result.tbl].rows[2] = result.args
    /\ db._tables[result.tbl].rows[1] # result.args

\* C3: an insert with the wrong number of arguments, or with an argument
\* that is not of the kind of its column, fails with a ValidationError and
\* changes neither the database object nor the stored document.
C3_FailedInsertNoMutation ==
    [][(result'.op = "insert"
            /\ ~KindsMatch(db._tables[result'.tbl].columns, result'.args))
        => /\ result'.err.exc = "ValidationError"
           /\ db' = db
           /\ disk' = disk]_vars

\* C4: an insert that passes a boolean for an Int column (its other
\* arguments being of the kinds of their columns) fails with WrongType for
\* that column and leaves the table unchanged.
C4_BoolRejectedByInt ==
    [][(/\ result'.op = "insert"
        /\ Len(result'.args) = Len(db._tables[result'.tbl].columns)
        /\ \E i \in 1..Len(result'.args) :
              /\ db._tables[result'.tbl].columns[i].type = "int"
              /\ result'.args[i].kind = "bool"
              /\ \A k \in 1..(i - 1) :
                    result'.args[k].kind = db._tables[result'.tbl].columns[k].type)
        => /\ ErrorKind(result'.err) = "WrongType"
           /\ db'._tables = db._tables]_vars

\* C5: a query whose keys are all declared columns yields, without error,
\* exactly the rows in which every key's column equals the key's value, each
\* once and in the order of insertion; all() yields every row in that order.
C5_QuerySelects ==
    /\ (result.op = "query"
            /\ \A p \in 1..Len(result.filter) :
                  \E i \in 1..Len(db._tables[result.tbl].columns) :
                      db._tables[result.tbl].columns[i].name = result.filter[p].key)
        => /\ result.err = NoErr
           /\ result.rows = SelectedRows(db._tables[result.tbl], result.filter)
    /\ \A ti \in 1..Len(db._tables) :
          /\ all(db._tables[ti]).err = NoErr
          /\ all(db._tables[ti]).rows
               = [r \in 1..Len(db._tables[ti].rows) |->
                    Row(db._tables[ti].col_names, db._tables[ti].rows[r])]

\* C5 witness: a query with two keys on a table of two rows yielded one row
C5_Witness ==
    /\ result.op = "query"
    /\ Len(result.filter) = 2
    /\ Len(db._tables[result.tbl].rows) = 2
    /\ Len(result.rows) = 1
    /\ result.rows[1] = Row(db._tables[result.tbl].col_names, db._tables[result.tbl].rows[2])

C7_SecondCreateFails ==
    result.op = "create_database"
    => ErrorKind(create_database(disk, result.name).err) = "AlreadyExistsError"

\* C8: once a table has been created in the database, in every later state
\* the file of its name exists, connect_database succeeds and
\* create_database fails with AlreadyExistsError.
C8_StoredForGood ==
    (db.bound /\ Len(db._tables) >= 1)
    => /\ isfile(disk, db._db_name)
       /\ connect_database(disk, db._db_name).err = NoErr
       /\ ErrorKind(create_database(disk, db._db_name).err) = "AlreadyExistsError"

\* C9: connect_database on a name without a stored database fails with
\* NotFoundError, returns no Database object and leaves storage as it was.
C9_ConnectMissing ==
    [][(result'.op = "connect_database" /\ ~isfile(disk, result'.name))
        => /\ ErrorKind(result'.err) = "NotFoundError"
           /\ db' = db
           /\ disk' = disk
           /\ ~isfile(disk', result'.name)]_vars

\* C9 witness: connect_database failed on a name for which create_database
\* had returned a Database that was never persisted
C9_Witness ==
    /\ result.op = "connect_database"
    /\ ErrorKind(result.err) = "NotFoundError"
    /\ db.bound
    /\ db._db_name = result.name
    /\ ~isfile(disk, result.name)

\* C10: create_table fails with DuplicateTableError when a table of the name
\* exists and with InvalidNameError when the name does not start with a
\* letter, and either way changes neither the database object nor the stored
\* document.
C10_FailedCreateTable ==
    [][(result'.op = "create_table")
        => /\ (\E i \in 1..Len(db._tables) : db._tables[i].name = result'.name)
                => /\ ErrorKind(result'.err) = "DuplicateTableError"
                   /\ db' = db /\ disk' = disk
           /\ ~StartsWithLetter(result'.name)
                => /\ ErrorKind(result'.err) = "InvalidNameError"
                   /\ db' = db /\ disk' = disk]_vars

\* the calls made on a Database object and its tables, which leave the
\* program holding the same object
ObjectOps == {"create_table", "insert", "query", "commit"}

\* C11: in every reachable state the column names of every table are
\* non-empty, start with an ASCII letter and are pairwise distinct (a
\* create_table with another column list fails and creates no table).
C11_SchemaValid ==
    \A ti \in 1..Len(db._tables) :
        LET cols == db._tables[ti].columns
        IN /\ \A i \in 1..Len(cols) : StartsWithLetter(cols[i].name)
           /\ \A i, j \in 1..Len(cols) : i # j => cols[i].name # cols[j].name

\* C12: show_tables() lists each table once, a successful create_table
\* appends its name to the list, and no other call on the object changes the
\* list; a database returned by connect_database lists the stored tables in
\* their stored order.
C12_ShowTables ==
    [][/\ \A i, j \in 1..Len(show_tables(db')) :
              i # j => show_tables(db')[i] # show_tables(db')[j]
       /\ (result'.op = "create_table" /\ result'.err = NoErr)
            => show_tables(db') = Append(show_tables(db), result'.name)
       /\ (result'.op \in ObjectOps /\ ~(result'.op = "create_table" /\ result'.err = NoErr))
            => show_tables(db') = show_tables(db)
       /\ (result'.op = "connect_database" /\ result'.err = NoErr)
            => show_tables(db')
                 = [i \in 1..Len(disk[result'.name].doc) |-> disk[result'.name].doc[i].name]
      ]_vars

\* C12 witness: a second table has been created after a first one
C12_Witness ==
    /\ result.op = "create_table"
    /\ result.err = NoErr
    /\ Len(show_tables(db)) = 2
    /\ show_tables(db)[2] = result.name
    /\ show_tables(db)[1] # result.name

\* C13: describe() on a table just created returns the column list passed
\* to create_table, and no later insert, query, commit or create_table
\* changes what describe() returns for a table.
C13_DescribeFixed ==
    [][/\ (result'.op = "create_table" /\ result'.err = NoErr)
            => describe(db'._tables[Len(db'._tables)]) = result'.columns
       /\ result'.op \in ObjectOps
            => \A ti \in 1..Len(db._tables) :
                   describe(db'._tables[ti]) = describe(db._tables[ti])
      ]_vars

\* C13 witness: a table declared with a str and a date column still
\* describes itself so after two inserts
C13_Witness ==
    /\ result.op = "insert"
    /\ result.err = NoErr
    /\ count(db._tables[result.tbl]) = 2
    /\ describe(db._tables[result.tbl]) = ColsB

\* s is a prefix of t
IsPrefix(s, t) == Len(s) <= Len(t) /\ SubSeq(t, 1, Len(s)) = s

\* the position of the first argument that is not of the kind of its column
FirstMismatch(columns, args) ==
    CHOOSE i \in 1..Len(args) :
        /\ args[i].kind # columns[i].type
        /\ \A k \in 1..(i - 1) : args[k].kind = columns[k].type

\* C15: over every call on a Database object the rows of each table before
\* the call are a prefix of its rows after the call, and they differ only
\* after a successful insert into that table.
C15_AppendOnly ==
    [][result'.op \in ObjectOps
        => \A ti \in 1..Len(db._tables) :
              /\ IsPrefix(db._tables[ti].rows, db'._tables[ti].rows)
              /\ db'._tables[ti].rows # db._tables[ti].rows
                   => /\ result'.op = "insert"
                      /\ result'.err = NoErr
                      /\ result'.tbl = ti
      ]_vars

\* C15 witness: a table of two rows has been queried
C15_Witness ==
    /\ result.op = "query"
    /\ result.err = NoErr
    /\ count(db._tables[result.tbl]) = 2
    /\ Len(result.rows) = 2

\* C16: an insert with a number of arguments other than the number of
\* columns fails with WrongArity whatever the arguments; otherwise an insert
\* with an argument not of the kind of its column fails with WrongType
\* naming the first such column from the left, the kind given and the kind
\* expected.
C16_ValidationOrder ==
    [][result'.op = "insert"
        => LET cols == db._tables[result'.tbl].columns
               args == result'.args
           IN /\ Len(args) # Len(cols) => ErrorKind(result'.err) = "WrongArity"
              /\ (Len(args) = Len(cols) /\ ~KindsMatch(cols, args))
                   => /\ ErrorKind(result'.err) = "WrongType"
                      /\ result'.err.col = cols[FirstMismatch(cols, args)].name
                      /\ result'.err.given = args[FirstMismatch(cols, args)].kind
                      /\ result'.err.expected = cols[FirstMismatch(cols, args)].type
      ]_vars

\* C17: after every successful create_table or insert the stored document
\* of the database's name lists the tables of the object in creation order,
\* each with its name, its columns and its rows in insertion order, the
\* values of date columns as the strings of their dates.
C17_StoredEqualsMemory ==
    [][(result'.op \in {"create_table", "insert"} /\ result'.err = NoErr)
        => LET doc == disk'[db'._db_name].doc
           IN /\ isfile(disk', db'._db_name)
              /\ Len(doc) = Len(db'._tables)
              /\ \A i \in 1..Len(doc) :
                    /\ doc[i].name = db'._tables[i].name
                    /\ doc[i].columns = db'._tables[i].columns
                    /\ Len(doc[i].rows) = Len(db'._tables[i].rows)
                    /\ \A r \in 1..Len(doc[i].rows) :
                          /\ Len(doc[i].rows[r]) = Len(db'._tables[i].rows[r])
                          /\ \A c \in 1..Len(doc[i].rows[r]) :
                                IF doc[i].columns[c].type = "date"
                                THEN /\ doc[i].rows[r][c].kind = "str"
                                     /\ doc[i].rows[r][c]
                                          = _serialize_dt(db'._tables[i].rows[r][c])
                                ELSE doc[i].rows[r][c] = db'._tables[i].rows[r][c]
      ]_vars

\* C17 witness: a row with a date has been inserted into the second table
\* and the stored document holds the date as a string
C17_Witness ==
    /\ result.op = "insert"
    /\ result.err = NoErr
    /\ result.tbl = 2
    /\ result.args[2].kind = "date"
    /\ disk[db._db_name].doc[2].rows[1][2].kind = "str"

\* C18: connect_database leaves the stored document as it was, whether it
\* succeeds or fails.
C18_ConnectReadOnly ==
    [][result'.op = "connect_database" => disk' = disk]_vars

\* C19: commit leaves the database object as it was (date columns still
\* hold dates) and a second commit right after it writes the same document.
C19_CommitPure ==
    [][result'.op = "commit"
        => /\ db' = db
           /\ \A ti \in 1..Len(db'._tables) :
                 \A r \in 1..Len(db'._tables[ti].rows) :
                     \A c \in 1..Len(db'._tables[ti].columns) :
                         db'._tables[ti].columns[c].type = "date"
                             => db'._tables[ti].rows[r][c].kind = "date"
           /\ commit(db', disk') = disk'
      ]_vars

\* C19 witness: a database holding a date has been committed and the
\* document holds the date as a string
C19_Witness ==
    /\ result.op = "commit"
    /\ Len(db._tables) >= 1
    /\ db._tables[1].columns = ColsB
    /\ count(db._tables[1]) >= 1
    /\ db._tables[1].rows[1][2].kind = "date"
    /\ disk[db._db_name].doc[1].rows[1][2].kind = "str"

\* C20: a create_table with a name that starts with a letter and is not in
\* show_tables() succeeds and appends the name to show_tables().
C20_OnlyRealDuplicates ==
    [][(/\ result'.op = "create_table"
        /\ StartsWithLetter(result'.name)
        /\ \A i \in 1..Len(show_tables(db)) : show_tables(db)[i] # result'.name)
        => /\ result'.err = NoErr
           /\ show_tables(db') = Append(show_tables(db), result'.name)]_vars

\* C14: the rows one call of query yields are rows that matched the filter
\* in the table as it was when query was called, in their order, and once
\* the sequence is exhausted they are exactly those rows, whatever inserts
\* were made between the consumption of its elements.
C14_Snapshot ==
    gen.state \in {"running", "done"}
    => LET snapshot == SelectedRows([db._tables[gen.tbl] EXCEPT !.rows = gen.rows_at_call],
                                    gen.kwargs)
       IN /\ IsPrefix(gen.yielded, snapshot)
          /\ gen.state = "done" => gen.yielded = snapshot

====
